---- MODULE Spec2Model ----
(***************************************************************************)
(* The induction planner of src/src/KMRLDashboard.tsx: the hard fitness    *)
(* gate and the soft score (scoreTrain), the ranked list, the induction    *)
(* set, the branding compliance, the alert feed and the shunting cost, as  *)
(* the component recomputes them when its state changes.                   *)
(*                                                                         *)
(* Numbers.  A JavaScript number is a record [kind, v]: kind "fin" with    *)
(* the value v, or one of "nan", "-inf", "+inf".  Weights are counted in   *)
(* hundredths (the sliders step by 0.01), sub-scores in 1/Unit, so a       *)
(* composite score is an integer number of 1/(100*Unit); the inputs are    *)
(* chosen so that every division of the scorer is exact.  Time is counted  *)
(* in ticks, DayTicks ticks to the day (24*3600*1000 ms in the source).    *)
(* An ISO date is <<day, tick>>, or <<>> for a string Date cannot parse.   *)
(* The fields carCount, lastServiceKm and bay, and displayScore, which no  *)
(* computation reads, are left out of the records.                         *)
(***************************************************************************)
EXTENDS Integers, Sequences, FiniteSets, TLC

VARIABLES trains, weights, serviceDemand, respectBranding, now, runClock,
          ranked, inductedIds, campaignCompliance, alerts, shuntingCost

vars == <<trains, weights, serviceDemand, respectBranding, now, runClock,
          ranked, inductedIds, campaignCompliance, alerts, shuntingCost>>

-----------------------------------------------------------------------------
(* Bounds of the model *)

MaxTrains == 3

MaxNow == 1

(* At most this many weights differ from the default ones *)
MaxChanged == 1

(* Ticks per day, and per 48 hours *)
DayTicks == 2

SoonTicks == 2 * DayTicks

(* Sub-scores are counted in 1/Unit: 10, 3 and 40 are the divisors of the  *)
(* fitness, job and branding sub-scores, and 0.85 = 102/120.               *)
Unit == 10 * 3 * 4

TargetKm == 36000

SpreadKm == 20000

-----------------------------------------------------------------------------
(* JavaScript numbers *)

Fin(n) == [kind |-> "fin", v |-> n]

NaN == [kind |-> "nan", v |-> 0]

NegInf == [kind |-> "-inf", v |-> 0]

PosInf == [kind |-> "+inf", v |-> 0]

IsFinite(x) == x.kind = "fin"

Max(a, b) == IF a >= b THEN a ELSE b

Min(a, b) == IF a <= b THEN a ELSE b

Abs(a) == IF a >= 0 THEN a ELSE -a

(* Math.ceil(a / b) for b > 0 *)
CeilDiv(a, b) == -((-a) \div b)

(* Math.round(a / b) for b > 0: halves round up *)
RoundDiv(a, b) == (2 * a + b) \div (2 * b)

(* Math.min of three numbers, none of them infinite: NaN if any is NaN *)
MathMin3(a, b, c) ==
  IF IsFinite(a) /\ IsFinite(b) /\ IsFinite(c)
    THEN Fin(Min(a.v, Min(b.v, c.v)))
    ELSE NaN

(* a - b *)
JsSub(a, b) ==
  CASE IsFinite(a) /\ IsFinite(b) -> Fin(a.v - b.v)
    [] a.kind = "nan" \/ b.kind = "nan" -> NaN
    [] a.kind = b.kind -> NaN
    [] a.kind = "+inf" \/ b.kind = "-inf" -> PosInf
    [] OTHER -> NegInf

-----------------------------------------------------------------------------
(* The clock.  Every daysLeft and every soon reads Date.now() anew.  A     *)
(* render that recomputes the ranked list makes 3 readings per trainset    *)
(* for the scores and one per trainset for the alerts, numbered from 0;    *)
(* the clock may pass to the next tick between two of them.  runClock      *)
(* keeps the readings of the render that computed the current ranked list: *)
(* the readings before number tickAt are start, the others start + 1.      *)

NCalls(n) == 4 * n

Reading(c, k) == IF k < c.tickAt THEN c.start ELSE c.start + 1

(* The runs that can start at tick t over n trainsets *)
Clocks(t, n) ==
  { [start |-> t, tickAt |-> k] :
      k \in (IF t < MaxNow THEN 1 .. NCalls(n) ELSE {NCalls(n)}) \cup {NCalls(n)} }

(* Date.now() once the render is over *)
ClockAfter(c, n) == IF c.tickAt < NCalls(n) THEN c.start + 1 ELSE c.start

-----------------------------------------------------------------------------
(* Scoring *)

(* new Date(iso).getTime() *)
getTime(iso) == IF Len(iso) = 2 THEN Fin(iso[1] * DayTicks + iso[2]) ELSE NaN

(* daysLeft rounding down instead of up *)
daysLeft_Floor(iso, t) ==
  LET ms == getTime(iso)
  IN  IF IsFinite(ms) THEN Fin((ms.v - t) \div DayTicks) ELSE NaN

(* daysLeft(iso), with t the reading of Date.now() *)
daysLeft(iso, t) ==
  LET ms == getTime(iso)
  IN  IF IsFinite(ms) THEN Fin(CeilDiv(ms.v - t, DayTicks)) ELSE NaN

(* i is the 0-based position of the trainset in trains *)
minFitnessDays(t, c, i) ==
  MathMin3(daysLeft(t.fitness.rollingStockValidTill, Reading(c, 3 * i)),
           daysLeft(t.fitness.signallingValidTill, Reading(c, 3 * i + 1)),
           daysLeft(t.fitness.telecomValidTill, Reading(c, 3 * i + 2)))

Truthy(s) == s # "null" /\ s # ""

fitnessScore(d) == Max(0, Min(Unit, (d * Unit) \div 10))

jobPenalty(t) == Max(0, Unit - Min(Unit, (t.jobCardsOpen * Unit) \div 3))

mileageBalance(t) ==
  Unit - Min(Unit, (Abs(t.mileageKm - TargetKm) * Unit) \div SpreadKm)

brandingScore(t) ==
  IF Truthy(t.branding.campaign)
    THEN Min(Unit, ((t.branding.hoursCommitted - t.branding.hoursDelivered) * Unit)
                     \div Max(1, t.branding.hoursCommitted))
    ELSE (3 * Unit) \div 10

(* The cleaning penalty at 0.5 for 0.4 *)
cleaningPenalty_Half(t) == IF t.cleaningDue THEN (5 * Unit) \div 10 ELSE Unit

cleaningPenalty(t) == IF t.cleaningDue THEN (4 * Unit) \div 10 ELSE Unit

stablingBonus(t) ==
  IF t.stabledAt = "MAIN_DEPOT_A" THEN Unit
  ELSE IF t.stabledAt = "MAIN_DEPOT_B" THEN (85 * Unit) \div 100
  ELSE (7 * Unit) \div 10

(* The gate letting 0 days remaining pass *)
IsBlockedDays_Strict(m) == ~IsFinite(m) \/ m.v < 0

IsBlockedDays(m) == ~IsFinite(m) \/ m.v <= 0

scoreTrain(t, w, c, i) ==
  LET m == minFitnessDays(t, c, i)
  IN  IF IsBlockedDays(m)
        THEN NegInf
        ELSE Fin(  fitnessScore(m.v) * w.fitness
                 + jobPenalty(t) * w.jobs
                 + mileageBalance(t) * w.mileage
                 + brandingScore(t) * w.branding
                 + cleaningPenalty(t) * w.cleaning
                 + stablingBonus(t) * w.stabling)

defaultWeights ==
  [fitness |-> 35, jobs |-> 20, mileage |-> 15,
   branding |-> 10, cleaning |-> 10, stabling |-> 10]

WeightKeys == DOMAIN defaultWeights

-----------------------------------------------------------------------------
(* The ranked list *)

(* The ranked entry made without the job-card count of the trainset *)
RankedTrain_NoJobs(t, s, b, r) ==
  [id |-> t.id, mileageKm |-> t.mileageKm, fitness |-> t.fitness,
   jobCardsOpen |-> 0, branding |-> t.branding,
   cleaningDue |-> t.cleaningDue, stabledAt |-> t.stabledAt,
   status |-> t.status, score |-> s, blocked |-> b, rank |-> r]

RankedTrain(t, s, b, r) ==
  [id |-> t.id, mileageKm |-> t.mileageKm, fitness |-> t.fitness,
   jobCardsOpen |-> t.jobCardsOpen, branding |-> t.branding,
   cleaningDue |-> t.cleaningDue, stabledAt |-> t.stabledAt,
   status |-> t.status, score |-> s, blocked |-> b, rank |-> r]

IsBlockedScore(s) == ~IsFinite(s) \/ s = NegInf

(* trains.map((t) => ...) *)
Scored(ts, w, c) ==
  [i \in 1 .. Len(ts) |->
     LET s == scoreTrain(ts[i], w, c, i - 1)
     IN  RankedTrain(ts[i], s, IsBlockedScore(s), -1)]

(* The comparator putting blocked entries first *)
compareFn_BlockedFirst(a, b) ==
  IF a.blocked # b.blocked
    THEN (IF a.blocked THEN Fin(-1) ELSE Fin(1))
    ELSE JsSub(b.score, a.score)

(* The comparator putting lower scores first *)
compareFn_Ascending(a, b) ==
  IF a.blocked # b.blocked
    THEN (IF a.blocked THEN Fin(1) ELSE Fin(-1))
    ELSE JsSub(a.score, b.score)

(* The comparator handed to sort *)
compareFn(a, b) ==
  IF a.blocked # b.blocked
    THEN (IF a.blocked THEN Fin(1) ELSE Fin(-1))
    ELSE JsSub(b.score, a.score)

(* SortCompare: a comparator result of NaN counts as +0 *)
SortCompare(a, b) ==
  LET v == compareFn(a, b)
  IN  CASE v.kind = "fin" -> v.v
        [] v.kind = "nan" -> 0
        [] v.kind = "+inf" -> 1
        [] OTHER -> -1

RECURSIVE InsertSorted(_, _)
InsertSorted(s, x) ==
  IF s = <<>> THEN <<x>>
  ELSE IF SortCompare(s[Len(s)], x) > 0
    THEN Append(InsertSorted(SubSeq(s, 1, Len(s) - 1), x), s[Len(s)])
    ELSE Append(s, x)

(* Array.prototype.sort, which is stable *)
RECURSIVE SortStable(_)
SortStable(s) ==
  IF s = <<>> THEN <<>>
  ELSE InsertSorted(SortStable(SubSeq(s, 1, Len(s) - 1)), s[Len(s)])

(* The ranks counted from 0 *)
AssignRanks_FromZero(s) == [p \in 1 .. Len(s) |-> [s[p] EXCEPT !.rank = p - 1]]

(* scored.map((r, idx) => ({ ...r, rank: idx + 1 })) *)
AssignRanks(s) == [p \in 1 .. Len(s) |-> [s[p] EXCEPT !.rank = p]]

(* The weights of a run without the override *)
RunWeights_NoOverride(w, rb) == w

(* const w = respectBranding ? weights : { ...weights, branding: 0 } *)
RunWeights(w, rb) == IF rb THEN w ELSE [w EXCEPT !.branding = 0]

Ranked(ts, w, rb, c) == AssignRanks(SortStable(Scored(ts, RunWeights(w, rb), c)))

-----------------------------------------------------------------------------
(* Derived values *)

RECURSIVE FilterNotBlocked(_)
FilterNotBlocked(s) ==
  IF s = <<>> THEN <<>>
  ELSE IF s[1].blocked THEN FilterNotBlocked(Tail(s))
  ELSE <<s[1]>> \o FilterNotBlocked(Tail(s))

(* s.slice(0, end): a negative end counts from the end of s *)
Slice0(s, end) ==
  LET final == IF end < 0 THEN Max(Len(s) + end, 0) ELSE Min(end, Len(s))
  IN  SubSeq(s, 1, final)

Top(r, sd) == Slice0(FilterNotBlocked(r), sd)

InductedIds(r, sd) == LET top == Top(r, sd) IN { top[p].id : p \in 1 .. Len(top) }

HasCampaign(t) == Truthy(t.branding.campaign)

Campaigns(ts) == { i \in 1 .. Len(ts) : HasCampaign(ts[i]) }

(* The delivering campaigns counted with > for >= *)
Delivering_Strict(ts) ==
  { i \in 1 .. Len(ts) :
      /\ HasCampaign(ts[i])
      /\ ts[i].branding.hoursDelivered > Min(ts[i].branding.hoursCommitted, 1) }

Delivering(ts) ==
  { i \in 1 .. Len(ts) :
      /\ HasCampaign(ts[i])
      /\ ts[i].branding.hoursDelivered >= Min(ts[i].branding.hoursCommitted, 1) }

(* The compliance at 0 when there is no campaign *)
CampaignCompliance_ZeroWhenNone(ts) ==
  IF Cardinality(Campaigns(ts)) # 0
    THEN RoundDiv(Cardinality(Delivering(ts)) * 100, Cardinality(Campaigns(ts)))
    ELSE 0

CampaignCompliance(ts) ==
  IF Cardinality(Campaigns(ts)) # 0
    THEN RoundDiv(Cardinality(Delivering(ts)) * 100, Cardinality(Campaigns(ts)))
    ELSE 100

(* soon(iso), with t the reading of Date.now() *)
soon(iso, t) ==
  LET ms == getTime(iso) IN IsFinite(ms) /\ ms.v < t + SoonTicks

(* The alerts of the entry at position p of the ranked list *)
AlertsOf(r, c, p) ==
     (IF soon(r[p].fitness.telecomValidTill, Reading(c, 3 * Len(r) + p - 1))
        THEN <<[level |-> "high", id |-> r[p].id]>> ELSE <<>>)
  \o (IF r[p].jobCardsOpen >= 3
        THEN <<[level |-> "med", id |-> r[p].id]>> ELSE <<>>)
  \o (IF r[p].cleaningDue
        THEN <<[level |-> "low", id |-> r[p].id]>> ELSE <<>>)

RECURSIVE AllAlerts(_, _, _)
AllAlerts(r, c, p) ==
  IF p > Len(r) THEN <<>> ELSE AlertsOf(r, c, p) \o AllAlerts(r, c, p + 1)

(* The alert feed left whole *)
Alerts_All(r, c) == AllAlerts(r, c, 1)

Alerts(r, c) == Slice0(AllAlerts(r, c, 1), 6)

(* The satellite yard costed as depot B *)
UnitCost_SatelliteAsB(t) == IF t.stabledAt = "MAIN_DEPOT_A" THEN 1 ELSE 2

UnitCost(t) ==
  IF t.stabledAt = "MAIN_DEPOT_A" THEN 1
  ELSE IF t.stabledAt = "MAIN_DEPOT_B" THEN 2
  ELSE 3

RECURSIVE SumCost(_)
SumCost(s) == IF s = <<>> THEN 0 ELSE UnitCost(s[1]) + SumCost(Tail(s))

(* Math.round(cost * 1.4) *)
ShuntingCost(r, sd) == RoundDiv(SumCost(Top(r, sd)) * 14, 10)

-----------------------------------------------------------------------------
(* The trainsets.  The component never calls setTrains: trains keeps the   *)
(* list it is constructed with.  The identifier of a trainset is made from *)
(* its position in the list, as the seed data makes it.                    *)

Far == <<12, 0>>

Near == <<0, 1>>

Fitness(r, s, t) ==
  [rollingStockValidTill |-> r, signallingValidTill |-> s, telecomValidTill |-> t]

Branding(c, hc, hd) == [campaign |-> c, hoursCommitted |-> hc, hoursDelivered |-> hd]

Trainset(f, j, km, b, cl, st, status) ==
  [id |-> 0, mileageKm |-> km, fitness |-> f, jobCardsOpen |-> j, branding |-> b,
   cleaningDue |-> cl, stabledAt |-> st, status |-> status]

NoBranding == Branding("null", 0, 0)

Healthy == Trainset(Fitness(Far, Far, Far), 0, TargetKm, NoBranding, FALSE,
                    "MAIN_DEPOT_A", "Ready")

(* The certificates: unparsable, expiring at tick 1, or far from expiry,  *)
(* in every combination, and one certificate expiring at tick 0           *)
CertSlice ==
     { [Healthy EXCEPT !.fitness = Fitness(r, s, t)] :
         r \in {<<>>, Near, Far}, s \in {<<>>, Near, Far}, t \in {<<>>, Near, Far} }
  \cup { [Healthy EXCEPT !.fitness = f] :
         f \in { Fitness(<<0, 0>>, Far, Far), Fitness(Far, <<0, 0>>, Far),
                 Fitness(Far, Far, <<0, 0>>), Fitness(<<2, 0>>, <<2, 0>>, <<2, 0>>) } }

Brandings ==
     { Branding("Kerala Tourism", hc, hd) : hc \in {0, 40}, hd \in {0, 10, 40, 50} }
  \cup { Branding("", 40, 10), Branding("", 0, 0),
         Branding("null", 40, 10), Branding("null", 0, 50) }

(* One soft factor at a time *)
SoftSlice ==
       { [Healthy EXCEPT !.jobCardsOpen = j] : j \in 1 .. 4 }
  \cup { [Healthy EXCEPT !.mileageKm = km] : km \in {26000, 46000, 60000} }
  \cup { [Healthy EXCEPT !.branding = b] : b \in Brandings }
  \cup { [Healthy EXCEPT !.cleaningDue = TRUE] }
  \cup { [Healthy EXCEPT !.stabledAt = st] : st \in {"MAIN_DEPOT_B", "SATELLITE"} }
  \cup { [Healthy EXCEPT !.status = st] : st \in {"Standby", "IBL"} }

(* The trainsets that fleets of two and more are made of *)
FleetPool ==
  { Healthy,
    Trainset(Fitness(Far, <<2, 0>>, Near), 3, 46000,
             Branding("Kerala Tourism", 40, 50), TRUE, "MAIN_DEPOT_B", "Standby"),
    Trainset(Fitness(<<0, 0>>, Far, Far), 1, 26000,
             Branding("Bank Promo", 40, 0), FALSE, "SATELLITE", "IBL") }

RECURSIVE SeqsOf(_, _)
SeqsOf(S, n) ==
  IF n = 0 THEN {<<>>}
  ELSE { Append(s, x) : s \in SeqsOf(S, n - 1), x \in S }

WithIds(s) == [i \in 1 .. Len(s) |-> [s[i] EXCEPT !.id = i]]

seed ==
  { WithIds(s) :
      s \in {<<>>}
            \cup { <<t>> : t \in CertSlice \cup SoftSlice \cup FleetPool }
            \cup UNION { SeqsOf(FleetPool, n) : n \in 2 .. MaxTrains } }

-----------------------------------------------------------------------------
(* The state of the component and its handlers *)

(* updateWeight and setServiceDemand store whatever number they are given; *)
(* the sliders that call them are not part of the computation.             *)
WeightValues == {-10, 0}

DemandValues == {-1, 0, 2, 18}

(* The weights that differ from the default ones *)
Changed(w) == { k \in WeightKeys : w[k] # defaultWeights[k] }

(* A render in which ranked is recomputed: trains, weights or            *)
(* respectBranding has changed (or the component is being mounted)       *)
RenderAll(ts, w, rb, sd, c) ==
  /\ runClock' = c
  /\ now' = ClockAfter(c, Len(ts))
  /\ ranked' = Ranked(ts, w, rb, c)
  /\ inductedIds' = InductedIds(ranked', sd)
  /\ campaignCompliance' = CampaignCompliance(ts)
  /\ alerts' = Alerts(ranked', c)
  /\ shuntingCost' = ShuntingCost(ranked', sd)

Init ==
  /\ trains \in seed
  /\ weights = defaultWeights
  /\ serviceDemand = 18
  /\ respectBranding = TRUE
  /\ \E c \in Clocks(0, Len(trains)) :
       /\ runClock = c
       /\ now = ClockAfter(c, Len(trains))
       /\ ranked = Ranked(trains, weights, respectBranding, c)
       /\ inductedIds = InductedIds(ranked, serviceDemand)
       /\ campaignCompliance = CampaignCompliance(trains)
       /\ alerts = Alerts(ranked, c)
       /\ shuntingCost = ShuntingCost(ranked, serviceDemand)

(* updateWeight(key, value), called by a slider when its value changes *)
updateWeight(key, value) ==
  /\ value # weights[key]
  /\ weights' = [weights EXCEPT ![key] = value]
  /\ Cardinality(Changed(weights')) <= MaxChanged
  /\ UNCHANGED <<trains, serviceDemand, respectBranding>>
  /\ \E c \in Clocks(now, Len(trains)) :
       RenderAll(trains, weights', respectBranding, serviceDemand, c)

(* setRespectBranding writing the override into the stored weights *)
setRespectBranding_Stored(v) ==
  /\ v # respectBranding
  /\ respectBranding' = v
  /\ weights' = RunWeights(weights, v)
  /\ UNCHANGED <<trains, serviceDemand>>
  /\ \E c \in Clocks(now, Len(trains)) :
       RenderAll(trains, weights', v, serviceDemand, c)

(* setRespectBranding(v): nothing is rendered when the state is the same *)
setRespectBranding(v) ==
  /\ v # respectBranding
  /\ respectBranding' = v
  /\ UNCHANGED <<trains, weights, serviceDemand>>
  /\ \E c \in Clocks(now, Len(trains)) :
       RenderAll(trains, weights, v, serviceDemand, c)

(* setServiceDemand(v): ranked and alerts are memoized, the rest of the  *)
(* render is recomputed                                                  *)
setServiceDemand(v) ==
  /\ v # serviceDemand
  /\ serviceDemand' = v
  /\ inductedIds' = InductedIds(ranked, v)
  /\ campaignCompliance' = CampaignCompliance(trains)
  /\ shuntingCost' = ShuntingCost(ranked, v)
  /\ UNCHANGED <<trains, weights, respectBranding, now, runClock, ranked, alerts>>

(* Time passes while nothing is rendered *)
Tick ==
  /\ now < MaxNow
  /\ now' = now + 1
  /\ UNCHANGED <<trains, weights, serviceDemand, respectBranding, runClock,
                 ranked, inductedIds, campaignCompliance, alerts, shuntingCost>>

Next ==
  \/ \E key \in WeightKeys :
       \E value \in WeightValues \cup {defaultWeights[key]} : updateWeight(key, value)
  \/ \E v \in BOOLEAN : setRespectBranding(v)
  \/ \E v \in DemandValues : setServiceDemand(v)
  \/ Tick

Spec == Init /\ [][Next]_vars

-----------------------------------------------------------------------------
(* What the claims speak of *)

(* The ranked entry of the trainset at position i of trains *)
Entry(i) == ranked[CHOOSE p \in 1 .. Len(ranked) : ranked[p].id = i]

(* The three days-remaining values the last ranking computed for trainset i *)
CertDays(i) ==
  { daysLeft(trains[i].fitness.rollingStockValidTill, Reading(runClock, 3 * (i - 1))),
    daysLeft(trains[i].fitness.signallingValidTill, Reading(runClock, 3 * (i - 1) + 1)),
    daysLeft(trains[i].fitness.telecomValidTill, Reading(runClock, 3 * (i - 1) + 2)) }

(* The expiry of each certificate of trainset i, with the instant it was  *)
(* judged at in the last ranking                                          *)
CertJudged(i) ==
  { <<getTime(trains[i].fitness.rollingStockValidTill), Reading(runClock, 3 * (i - 1))>>,
    <<getTime(trains[i].fitness.signallingValidTill), Reading(runClock, 3 * (i - 1) + 1)>>,
    <<getTime(trains[i].fitness.telecomValidTill), Reading(runClock, 3 * (i - 1) + 2)>> }

NonBlocked == { p \in 1 .. Len(ranked) : ~ranked[p].blocked }

(* C1: a trainset with a certificate whose days remaining are <= 0 or not *)
(* a finite number is ranked blocked, with the score -Infinity, whatever  *)
(* the weights and respectBranding.                                       *)
C1_ExpiredIsBlocked ==
  \A i \in 1 .. Len(trains) :
    (\E d \in CertDays(i) : ~IsFinite(d) \/ d.v <= 0)
      => Entry(i).blocked /\ Entry(i).score = NegInf

(* C1 happens: only the signalling certificate is at 0 days, the branding *)
(* weight is overridden and a weight has been changed                     *)
C1_Witness ==
  /\ ~respectBranding
  /\ weights # defaultWeights
  /\ \E i \in 1 .. Len(trains) :
       /\ daysLeft(trains[i].fitness.signallingValidTill,
                   Reading(runClock, 3 * (i - 1) + 1)) = Fin(0)
       /\ \A d \in CertDays(i) : IsFinite(d) /\ d.v >= 0
       /\ Cardinality(CertDays(i)) > 1
       /\ Entry(i).blocked

(* C2: in the ranked list no blocked entry precedes a non-blocked one.    *)
C2_BlockedLast ==
  \A p, q \in 1 .. Len(ranked) :
    p < q => ~(ranked[p].blocked /\ ~ranked[q].blocked)

(* C2 happens: a blocked trainset that came first in the input is ranked  *)
(* after two non-blocked ones                                             *)
C2_Witness ==
  /\ Len(ranked) = 3
  /\ ranked[3].blocked /\ ranked[3].id = 1
  /\ ~ranked[1].blocked /\ ~ranked[2].blocked

(* C3: the ranks are 1..N, the entry at position p has rank p, blocked    *)
(* entries included; the placeholder -1 never shows.                      *)
C3_RanksArePositions ==
  /\ Len(ranked) = Len(trains)
  /\ \A p \in 1 .. Len(ranked) : ranked[p].rank = p
  /\ { ranked[p].rank : p \in 1 .. Len(ranked) } = 1 .. Len(trains)

(* C3 happens: three entries, the blocked ones with the trailing ranks    *)
C3_Witness ==
  /\ Len(ranked) = 3
  /\ ~ranked[1].blocked /\ ranked[2].blocked /\ ranked[3].blocked
  /\ ranked[3].rank = 3 /\ ranked[1].id # 1

C5_SubScoresInUnitInterval ==
  \A i \in 1 .. Len(trains) :
    ~Entry(i).blocked =>
      \A x \in { fitnessScore(minFitnessDays(trains[i], runClock, i - 1).v),
                 jobPenalty(trains[i]), mileageBalance(trains[i]),
                 brandingScore(trains[i]), cleaningPenalty(trains[i]),
                 stablingBonus(trains[i]) } :
        0 <= x /\ x <= Unit

(* C6: the non-blocked entries are in non-increasing order of score; two  *)
(* non-blocked entries of equal score, and two blocked entries, keep the  *)
(* order they had in the input.                                           *)
C6_ScoreOrderStable ==
  \A p, q \in 1 .. Len(ranked) :
    p < q =>
      /\ (~ranked[p].blocked /\ ~ranked[q].blocked)
           => /\ IsFinite(ranked[p].score) /\ IsFinite(ranked[q].score)
              /\ ranked[p].score.v >= ranked[q].score.v
              /\ (ranked[p].score.v = ranked[q].score.v => ranked[p].id < ranked[q].id)
      /\ (ranked[p].blocked /\ ranked[q].blocked) => ranked[p].id < ranked[q].id

(* C6 happens: two trainsets of equal score are ranked before one of a    *)
(* lower score that came first in the input                               *)
C6_Witness ==
  /\ Len(ranked) = 3
  /\ \A p \in 1 .. 3 : ~ranked[p].blocked
  /\ ranked[1].score = ranked[2].score
  /\ ranked[2].score.v > ranked[3].score.v
  /\ ranked[3].id = 1

(* C7: ranking with respectBranding false and the weights W gives the     *)
(* ranked list that respectBranding true gives with the branding weight   *)
(* of W replaced by 0.                                                    *)
C7_OverrideIsZeroWeight ==
  ~respectBranding =>
    ranked = Ranked(trains, [weights EXCEPT !.branding = 0], TRUE, runClock)

(* C7 happens: respectBranding is false and the stored branding weight    *)
(* would have given other scores                                          *)
C7_Witness ==
  /\ ~respectBranding
  /\ weights.branding # 0
  /\ Len(ranked) >= 2
  /\ ranked # Ranked(trains, weights, TRUE, runClock)

C9_OnlyCertificatesGate ==
  \A i \in 1 .. Len(trains) :
    /\ (\A j \in CertJudged(i) : IsFinite(j[1]) /\ j[1].v > j[2])
         => ~Entry(i).blocked /\ IsFinite(Entry(i).score)
    /\ (\E j \in CertJudged(i) : IsFinite(j[1]) /\ j[1].v = j[2])
         => Entry(i).blocked

(* C9 happens: a trainset on standby with three open job-cards, cleaning  *)
(* due and a certificate expiring within the day is ranked non-blocked    *)
(* under changed weights                                                  *)
C9_Witness ==
  /\ weights # defaultWeights
  /\ \E i \in 1 .. Len(trains) :
       /\ trains[i].status = "Standby" /\ trains[i].jobCardsOpen >= 3
       /\ trains[i].cleaningDue
       /\ \E j \in CertJudged(i) : IsFinite(j[1]) /\ j[1].v = j[2] + 1
       /\ ~Entry(i).blocked /\ IsFinite(Entry(i).score)

(* C10: the branding compliance is 100 without campaigns, and otherwise   *)
(* 100 * c / m rounded to the nearest integer, m counting the trainsets   *)
(* with a campaign and c those of them with hoursDelivered >=             *)
(* min(hoursCommitted, 1); it is in 0..100, and 100 when every campaign   *)
(* has delivered its commitment.  Only trains decides it.                 *)
C10_BrandingCompliance ==
  LET bearing == { i \in 1 .. Len(trains) :
                     trains[i].branding.campaign \notin {"null", ""} }
      m == Cardinality(bearing)
      c == Cardinality({ i \in bearing :
                           \/ trains[i].branding.hoursDelivered >= 1
                           \/ trains[i].branding.hoursDelivered
                                >= trains[i].branding.hoursCommitted })
  IN  /\ campaignCompliance \in 0 .. 100
      /\ m = 0 => campaignCompliance = 100
      /\ m > 0 => /\ 2 * m * campaignCompliance - m <= 200 * c
                  /\ 200 * c < 2 * m * campaignCompliance + m
      /\ (\A i \in bearing : trains[i].branding.hoursDelivered
                               >= trains[i].branding.hoursCommitted)
           => campaignCompliance = 100

(* C10 happens: two campaigns of three deliver, one of them on a blocked  *)
(* trainset, while the branding weight is overridden                      *)
C10_Witness ==
  /\ campaignCompliance = 67
  /\ ~respectBranding
  /\ \E p \in 1 .. Len(ranked) : ranked[p].blocked /\ HasCampaign(ranked[p])

(* The least of the days remaining of trainset i in the last ranking *)
MinDays(i) == CHOOSE d \in CertDays(i) : \A e \in CertDays(i) : d.v <= e.v

NoCampaign(t) == t.branding.campaign \in {"null", ""}

(* C11: the branding sub-score of a non-blocked trainset is 0.3 without a *)
(* campaign; with a campaign it is 0 when hoursDelivered >= hoursCommitted *)
(* and (hoursCommitted - hoursDelivered) / max(1, hoursCommitted)          *)
(* otherwise.                                                              *)
C11_BrandingSubScore ==
  \A i \in 1 .. Len(trains) :
    ~Entry(i).blocked =>
      LET b == trains[i].branding
          x == brandingScore(trains[i])
      IN  /\ NoCampaign(trains[i]) => 10 * x = 3 * Unit
          /\ (~NoCampaign(trains[i]) /\ b.hoursDelivered >= b.hoursCommitted) => x = 0
          /\ (~NoCampaign(trains[i]) /\ b.hoursDelivered < b.hoursCommitted)
               => x * Max(1, b.hoursCommitted)
                    = (b.hoursCommitted - b.hoursDelivered) * Unit

(* C12: the score of a non-blocked trainset without a campaign is the     *)
(* plain weighted sum, with w the weights of the run and d >= 1 the least *)
(* of the days remaining: w.fitness * min(d, 10) / 10                     *)
(* + w.jobs * max(0, 1 - jobCardsOpen / 3)                                *)
(* + w.mileage * max(0, 1 - |mileageKm - 36000| / 20000)                  *)
(* + w.branding * 0.3 + w.cleaning * (0.4 if cleaningDue, else 1)         *)
(* + w.stabling * (1, 0.85 or 0.7).  Both sides are taken 60000 times.    *)
C12_CompositeScore ==
  \A i \in 1 .. Len(trains) :
    (~Entry(i).blocked /\ NoCampaign(trains[i])) =>
      LET t == trains[i]
          w == IF respectBranding THEN weights ELSE [weights EXCEPT !.branding = 0]
          d == MinDays(i).v
          km == IF t.mileageKm >= 36000 THEN t.mileageKm - 36000
                                        ELSE 36000 - t.mileageKm
      IN  /\ d >= 1
          /\ IsFinite(Entry(i).score)
          /\ Entry(i).score.v * 60000
               = Unit * (  w.fitness * (IF d < 10 THEN d ELSE 10) * 6000
                         + w.jobs * (IF t.jobCardsOpen < 3 THEN 3 - t.jobCardsOpen ELSE 0)
                             * 20000
                         + w.mileage * (IF km < 20000 THEN 20000 - km ELSE 0) * 3
                         + w.branding * 18000
                         + w.cleaning * (IF t.cleaningDue THEN 24000 ELSE 60000)
                         + w.stabling * (CASE t.stabledAt = "MAIN_DEPOT_A" -> 60000
                                           [] t.stabledAt = "MAIN_DEPOT_B" -> 51000
                                           [] t.stabledAt = "SATELLITE" -> 42000))

(* C12 happens: a trainset without a campaign, one day from expiry, is    *)
(* scored under a negative weight with the branding weight overridden     *)
C12_Witness ==
  /\ ~respectBranding
  /\ \E k \in WeightKeys : weights[k] < 0
  /\ \E i \in 1 .. Len(trains) :
       /\ ~Entry(i).blocked /\ NoCampaign(trains[i])
       /\ MinDays(i) = Fin(1)

(* The levels of the alerts the entry at position p of ranked calls for:  *)
(* its telecom certificate expires before the instant read for it plus 48 *)
(* hours, it has 3 open job-cards or more, its cleaning is due            *)
LevelsAt(p) ==
  LET ms == getTime(ranked[p].fitness.telecomValidTill)
      t == Reading(runClock, 3 * Len(ranked) + (p - 1))
  IN     (IF IsFinite(ms) /\ ms.v - t < 2 * DayTicks THEN {"high"} ELSE {})
    \cup (IF ranked[p].jobCardsOpen >= 3 THEN {"med"} ELSE {})
    \cup (IF ranked[p].cleaningDue THEN {"low"} ELSE {})

LevelNo(l) == CASE l = "high" -> 1 [] l = "med" -> 2 [] l = "low" -> 3

(* The alerts called for, as pairs <<position, level>> *)
Called ==
  { x \in (1 .. Len(ranked)) \X {"high", "med", "low"} : x[2] \in LevelsAt(x[1]) }

(* The place of a called alert in the scan: 1 + the number of those before *)
PlaceOf(x) ==
  1 + Cardinality({ y \in Called :
                      y[1] < x[1] \/ (y[1] = x[1] /\ LevelNo(y[2]) < LevelNo(x[2])) })

(* C13: the alert feed is the first 6 of the alerts called for by the     *)
(* ranked list, blocked entries included, scanned in rank order, each     *)
(* entry giving high, med, low in this order; it never holds more than 6  *)
(* and the alert of a lower rank never comes before one of a higher rank. *)
C13_AlertFeed ==
  /\ Len(alerts) = Min(6, Cardinality(Called))
  /\ \A x \in Called :
       PlaceOf(x) <= 6 =>
         alerts[PlaceOf(x)] = [level |-> x[2], id |-> ranked[x[1]].id]
  /\ Len(alerts) <= 6
  /\ \A a, b \in 1 .. Len(alerts) :
       a < b => Entry(alerts[a].id).rank <= Entry(alerts[b].id).rank

(* C13 happens: nine alerts are called for, one of them by a blocked      *)
(* entry, and the feed holds the first six                                *)
C13_Witness ==
  /\ Cardinality(Called) = 9
  /\ Len(alerts) = 6
  /\ ranked[3].blocked
  /\ alerts[6].id = ranked[2].id

(* The unit cost of the trainset with identifier i *)
CostOfId(i) ==
  CASE trains[i].stabledAt = "MAIN_DEPOT_A" -> 1
    [] trains[i].stabledAt = "MAIN_DEPOT_B" -> 2
    [] trains[i].stabledAt = "SATELLITE" -> 3

RECURSIVE SumCostOfIds(_)
SumCostOfIds(S) ==
  IF S = {} THEN 0
  ELSE LET x == CHOOSE y \in S : TRUE IN CostOfId(x) + SumCostOfIds(S \ {x})

(* C14: the shunting cost is 1.4 times the sum of the unit costs (1 for   *)
(* depot A, 2 for depot B, 3 for the satellite yard) of the trainsets of  *)
(* the induction set, rounded to the nearest integer; no blocked trainset *)
(* is among them.                                                         *)
C14_ShuntingCost ==
  LET S == SumCostOfIds(inductedIds)
  IN  /\ 10 * shuntingCost - 5 <= 14 * S
      /\ 14 * S < 10 * shuntingCost + 5
      /\ \A i \in inductedIds : ~Entry(i).blocked

(* C14 happens: two of three non-blocked trainsets are selected, one of   *)
(* them at depot B                                                        *)
C14_Witness ==
  /\ serviceDemand = 2
  /\ Cardinality(NonBlocked) = 3
  /\ Cardinality(inductedIds) = 2
  /\ \E i \in inductedIds : trains[i].stabledAt = "MAIN_DEPOT_B"
  /\ shuntingCost = 4

C16_EmptyFleet ==
  trains = <<>> =>
    /\ ranked = <<>>
    /\ inductedIds = {}
    /\ alerts = <<>>
    /\ campaignCompliance = 100
    /\ shuntingCost = 0

(* C16 happens: the list is empty, a weight is negative, the branding     *)
(* weight is overridden and serviceDemand is negative                     *)
C16_Witness ==
  /\ trains = <<>>
  /\ \E k \in WeightKeys : weights[k] < 0
  /\ ~respectBranding
  /\ serviceDemand < 0
  /\ ranked = <<>>

(* The instants read from the clock in the last ranking, the alerts'      *)
(* readings included                                                      *)
Instants == { Reading(runClock, k) : k \in 0 .. NCalls(Len(trains)) - 1 }

(* C17: a run judges every certificate against one instant: no trainset   *)
(* is ranked non-blocked while one of its certificates has expired at an  *)
(* instant the same run used, for another trainset or for the alerts.     *)
C17_SingleInstant ==
  \A i \in 1 .. Len(trains) :
    ~Entry(i).blocked =>
      \A j \in CertJudged(i), t \in Instants : IsFinite(j[1]) /\ j[1].v > t

(* C18: the override of the branding weight touches the weights of the    *)
(* run only.  The stored weights change in no step but one that changes a *)
(* single weight, with respectBranding and serviceDemand as they were;    *)
(* and the step that sets respectBranding back to true leaves the stored  *)
(* weights alone and ranks with the stored branding weight.               *)
C18_OverridePerRun ==
  [][ /\ weights' # weights =>
           /\ Cardinality({ k \in WeightKeys : weights'[k] # weights[k] }) = 1
           /\ respectBranding' = respectBranding
           /\ serviceDemand' = serviceDemand
      /\ respectBranding' # respectBranding => weights' = weights
      /\ (~respectBranding /\ respectBranding') =>
           ranked' = AssignRanks(SortStable(Scored(trains, weights, runClock')))
    ]_vars

(* C18 happens: respectBranding is false, the branding weight has been    *)
(* set to another value than 0 meanwhile and is stored as set, while the  *)
(* ranking goes by 0                                                      *)
C18_Witness ==
  /\ ~respectBranding
  /\ weights.branding = -10
  /\ \A k \in WeightKeys \ {"branding"} : weights[k] = defaultWeights[k]
  /\ \E p \in 1 .. Len(ranked) :
       /\ ~ranked[p].blocked /\ HasCampaign(ranked[p])
       /\ brandingScore(ranked[p]) # 0
       /\ ranked[p].score
            = scoreTrain(trains[ranked[p].id], [weights EXCEPT !.branding = 0],
                         runClock, ranked[p].id - 1)

(* The fields of a trainset that a ranked entry carries *)
TrainsetOf(r) ==
  [id |-> r.id, mileageKm |-> r.mileageKm, fitness |-> r.fitness,
   jobCardsOpen |-> r.jobCardsOpen, branding |-> r.branding,
   cleaningDue |-> r.cleaningDue, stabledAt |-> r.stabledAt, status |-> r.status]

(* C19: no step changes trains, and the ranked list is a permutation of   *)
(* it: every trainset is in it exactly once, with its fields as they are  *)
(* in trains, and nothing else is.                                        *)
C19_SnapshotKept ==
  /\ [](/\ Len(ranked) = Len(trains)
        /\ \A i \in 1 .. Len(trains) :
             Cardinality({ p \in 1 .. Len(ranked) : TrainsetOf(ranked[p]) = trains[i] }) = 1)
  /\ [][trains' = trains]_vars

(* C19 happens: three trainsets are ranked in another order than the      *)
(* input after a change of weight and of respectBranding                  *)
C19_Witness ==
  /\ Len(ranked) = 3
  /\ ranked[1].id = 3 /\ ranked[3].id = 1
  /\ weights # defaultWeights
  /\ ~respectBranding
  /\ serviceDemand # 18

====
